---- MODULE Spec2Model ----
(***************************************************************************)
(* zkLogin client (client/src/utils/zklogin.utils.ts) and server routes    *)
(* (server routes/zklogin.routes.ts): session storage, the in-memory salt  *)
(* cache, the ledger epoch, and the client operations prepareLogin,        *)
(* completeZkLogin (cut at its awaits), executeZkLoginTransaction and      *)
(* zkLoginLogout.                                                          *)
(*                                                                         *)
(* Values are tagged tuples so that any two of them can be compared; the   *)
(* empty tuple stands for null / undefined / a missing storage item.       *)
(* A network call takes two steps: the request is dispatched and the call  *)
(* suspends; later the server handles it and the call resumes with the     *)
(* response.                                                               *)
(*                                                                         *)
(* The Move package zk_login::kyc_auth (client/src/config/sui.config.ts):  *)
(* its registry, the credentials and sessions it issues, and its entry     *)
(* functions as transactions that either commit or abort with a code.      *)
(***************************************************************************)
EXTENDS Integers, Sequences, FiniteSets, TLC

VARIABLES
    ss,         \* sessionStorage: SESSION_KEYS -> item or NULL
    ls,         \* localStorage: sequence of <<key, value>> in insertion order
    userSalts,  \* server: the in-memory salt cache, sub -> salt or NULL
    epoch,      \* ledger: the current epoch
    fresh,      \* number of ephemeral keypairs generated so far
    cz,         \* frame of the completeZkLogin call in flight
    firstLogin, \* history: <<claims, address, logged out since>> of the first login that succeeded
    served,     \* history: the salt of the first accepted salt request, per subject
    emailed,    \* history: the backup notifications the server issued, per subject
    result,     \* what the call that finished in the last step returned or threw, else NULL
    prover,     \* <<payload, answer>> of the server's call of the prover in the last step, else NULL
    sent,       \* the requests dispatched in the last step, in their order
    registry,   \* ledger: the shared KYCRegistry object of kyc_auth
    credentials, \* ledger: the ZKLoginCredential objects, in the order they were issued
    sessions,   \* ledger: the UserSession objects, in the order they were created
    clock,      \* ledger: the timestamp of the Clock object
    barred,     \* history: per user, revoked or deactivated since the last completed verification
    tx          \* the last kyc_auth transaction: <<function, sender or subject, abort code, argument>>

\* the browser and the server
login_vars == <<ss, ls, userSalts, epoch, fresh, cz, firstLogin, served, emailed, result, prover,
                sent>>
\* the kyc_auth package on the ledger
kyc_vars == <<registry, credentials, sessions, clock, barred, tx>>

vars == <<login_vars, kyc_vars>>

NULL == <<>>

-----------------------------------------------------------------------------
(* Bounds *)

MaxLogins == 2      \* prepareLogin calls that generate a keypair
InitEpoch == 8      \* ledger epoch in the initial state
MaxEpoch == 11      \* the ledger epoch stops advancing here
MaxEmails == 2      \* backup notifications the mail service takes per subject
MaxDeviceItems == 3 \* entries other writers put into localStorage
MaxCredentials == 2 \* credentials issued by complete_kyc_verification
MaxSessions == 1    \* sessions created by zk_login
MaxClock == 1       \* times the ledger clock moves on

-----------------------------------------------------------------------------
(* Session storage *)

SESSION_KEYS ==
    { "ephemeral_private_key", "max_epoch", "randomness", "nonce", "zk_proof",
      "user_salt", "decoded_jwt", "zklogin_address", "salt_backup_sent" }

\* sessionStorage.setItem for several items at once
SetItems(store, items) ==
    [k \in SESSION_KEYS |-> IF k \in DOMAIN items THEN items[k] ELSE store[k]]

\* JavaScript's !x for a storage item or claim: null, undefined and '' are falsy
Falsy(x) == x = NULL

\* localStorage.setItem: an existing key keeps its place, a new one is appended
LsSetItem(store, key, val) ==
    IF \E i \in 1..Len(store) : store[i][1] = key
    THEN [i \in 1..Len(store) |->
             IF store[i][1] = key THEN <<key, val>> ELSE store[i]]
    ELSE Append(store, <<key, val>>)

LsGetItem(store, key) ==
    IF \E i \in 1..Len(store) : store[i][1] = key
    THEN store[CHOOSE i \in 1..Len(store) : store[i][1] = key][2]
    ELSE NULL

\* `zklogin_salt_${sub}`
SaltKey(sub) == <<"zklogin_salt_", sub>>
\* key?.startsWith('zklogin_salt_')
HasSaltPrefix(key) == key[1] = "zklogin_salt_"

\* localStorage.removeItem of the entry at position i: the entries after it move up
LsRemoveAt(store, i) ==
    [j \in 1..(Len(store) - 1) |-> IF j < i THEN store[j] ELSE store[j + 1]]

\* lines 397-402: the loop from position i on (positions count from 1 here); the
\* length is read anew in each round, the position moves on after a removal as well
RECURSIVE ClearSaltBackupsFrom(_, _)
ClearSaltBackupsFrom(store, i) ==
    IF i > Len(store) THEN store
    ELSE IF HasSaltPrefix(store[i][1])
    THEN ClearSaltBackupsFrom(LsRemoveAt(store, i), i + 1)
    ELSE ClearSaltBackupsFrom(store, i + 1)

-----------------------------------------------------------------------------
(* The SDK's functions, as far as the client relies on them *)

\* new Ed25519Keypair(): the n-th keypair generated; getSecretKey()
SecretKey(n) == <<"sk", n>>
\* Ed25519Keypair.fromSecretKey(s).getPublicKey()
PublicKey(sk) == <<"pk", sk[2]>>
\* generateRandomness()
Randomness(n) == <<"rand", n>>
\* generateNonce(publicKey, maxEpoch, randomness): a hash of its three inputs
generateNonce(pk, maxEpoch, randomness) == <<"nonce", pk, maxEpoch, randomness>>
\* getExtendedEphemeralPublicKey(publicKey)
getExtendedEphemeralPublicKey(pk) == <<"epk", pk[2]>>
\* maxEpoch.toString() and Number(maxEpoch)
NumToString(n) == <<"str", n>>
Number(s) == s[2]

\* An audience claim: a scalar, a list, or absent
AudStr(c) == <<"str", c>>
AudList(l) == <<"list", l>>
IsArray(aud) == aud # NULL /\ aud[1] = "list"
\* Array.isArray(aud) ? aud[0] : aud
NormalizeAud(aud) ==
    IF IsArray(aud)
    THEN (IF Len(aud[2]) > 0 THEN AudStr(aud[2][1]) ELSE NULL)
    ELSE aud

\* genAddressSeed(salt, 'sub', sub, aud): a hash of its inputs
genAddressSeed(salt, sub, aud) == <<"seed", salt, sub, aud>>
\* an address that takes in the token's nonce
jwtToAddress_ofWholeToken(claims, salt) ==
    <<"addr", claims.iss, genAddressSeed(salt, claims.sub, <<claims.aud, claims.nonce>>)>>

\* jwtToAddress(jwt, salt): the address of (iss, address seed of sub, aud, salt)
jwtToAddress(claims, salt) ==
    <<"addr", claims.iss, genAddressSeed(salt, claims.sub, claims.aud)>>

-----------------------------------------------------------------------------
(* Identity tokens *)

Subs == { <<"user-42">>, <<"user-7">> }
\* the subjects that log in from this browser
BrowserSubs == { <<"user-42">> }
Issuer == <<"https://accounts.google.com">>
CLIENT_ID == "client-a"
WHITELISTED_CLIENT_IDS == { CLIENT_ID }

Claims(iss, sub, aud, nonce) == [iss |-> iss, sub |-> sub, aud |-> aud, nonce |-> nonce]
\* an encoded JWT with header.payload.signature, and a string that is none
Jwt(claims) == <<"jwt", claims>>
Garbage == <<"garbage">>
\* jwtDecode / jwt.decode: the payload; a string that is no JWT has none
Decodes(token) == token[1] = "jwt"
\* three parts between dots that are no JWT: jwt.decode has null for it
Opaque == <<"x.y.z">>
\* line 53: token && typeof token === 'string' && token.split('.').length === 3
ThreeParts(token) == token # NULL /\ token[1] \in {"jwt", "x.y.z"}
Decode(token) == token[2]

-----------------------------------------------------------------------------
(* Server: routes/zklogin.routes.ts *)

\* A response: <<"http", status, body>>; a fetch that throws: <<"neterr">>
Http(status, body) == <<"http", status, body>>
NetErr == <<"neterr">>
\* response.ok
RespOk(resp) == resp[1] = "http" /\ resp[2] = 200

\* process.env.SALT_MASTER_SECRET || 'your-dev-master-secret-change-in-prod'
masterSecret == <<"secret", 0>>

\* a salt drawn per cache entry (its number in the cache) instead of derived
DeriveSalt_perEntry(secret, userSub) ==
    <<"salt", secret, <<Cardinality({ s \in DOMAIN userSalts : userSalts[s] # NULL })>>>>

\* HMAC-SHA256(masterSecret, userSub), first 16 bytes as a decimal string
DeriveSalt(secret, userSub) == <<"salt", secret, userSub>>

\* A text is a sequence of its parts.  JSON.stringify(value): the text that encodes the
\* value; JSON.parse(text): the value of such a text, and a throw for any other text
Stringify(value) == <<"{json}", value>>
JsonParses(text) == Len(text) = 2 /\ text[1] = "{json}"
JsonParse(text) == text[2]

\* lines 55-58, 77-80, 84-87, 100-103: 403 with error and details: JSON.stringify({ error })
Rejected(error) ==
    Http(403, Stringify([error |-> <<"Salt service error">>,
                         details |-> Stringify([error |-> <<error>>])]))

\* any audience taken, as long as there is one
AudienceRefused_absentOnly(normalizedAud) == Falsy(normalizedAud)

\* line 95: !normalizedAud || !WHITELISTED_CLIENT_IDS.includes(normalizedAud)
AudienceRefused(normalizedAud) ==
    Falsy(normalizedAud) \/ normalizedAud[2] \notin WHITELISTED_CLIENT_IDS

\* POST /salt: <<response, cache afterwards>>
SaltEndpoint(token, cache) ==
    IF ~ThreeParts(token) THEN <<Rejected("Invalid JWT format"), cache>>
    ELSE IF ~Decodes(token) THEN <<Rejected("Invalid JWT"), cache>>
    ELSE LET decoded == Decode(token)
             normalizedAud == NormalizeAud(decoded.aud)
             userSub == decoded.sub
         IN  IF Falsy(decoded.sub)
             THEN <<Rejected("Missing user subject (sub)"), cache>>
             ELSE IF AudienceRefused(normalizedAud)
             THEN <<Rejected("Invalid Client ID"), cache>>
             ELSE IF cache[userSub] # NULL
             THEN <<Http(200, cache[userSub]), cache>>
             ELSE LET salt == DeriveSalt(masterSecret, userSub)
                  IN  <<Http(200, salt), [cache EXCEPT ![userSub] = salt]>>

\* A property of a JSON body; undefined when the body has none of that name
Field(req, f) == IF f \in DOMAIN req THEN req[f] ELSE NULL

\* The external prover's proof for a payload: bound to its inputs
Proof(req) ==
    <<"proof", Field(req, "jwt"), Field(req, "extendedEphemeralPublicKey"),
      Field(req, "maxEpoch"), Field(req, "jwtRandomness"), Field(req, "salt")>>

\* The external prover's answer: <<"prover", status, statusText, body>>
ProverFailures == { <<"prover", 500, "Internal Server Error", "proof generation failed">> }
\* What fetch(config.proverUrl) can bring: a proof, a failure, or the fetch throws
ProverAnswers(req) == { <<"prover", 200, "OK", Proof(req)>> } \cup ProverFailures \cup { NetErr }
\* response.ok of the prover's answer
ProverAccepted(answer) == answer[1] = "prover" /\ answer[2] = 200

\* the salt not among the fields looked at
MissingRequiredFields_noSalt(req) ==
    \/ Falsy(Field(req, "jwt")) \/ Falsy(Field(req, "extendedEphemeralPublicKey"))
    \/ "maxEpoch" \notin DOMAIN req \/ req.maxEpoch = 0
    \/ Falsy(Field(req, "jwtRandomness"))

\* line 151
MissingRequiredFields(req) ==
    \/ Falsy(Field(req, "jwt")) \/ Falsy(Field(req, "extendedEphemeralPublicKey"))
    \/ "maxEpoch" \notin DOMAIN req \/ req.maxEpoch = 0
    \/ Falsy(Field(req, "jwtRandomness")) \/ Falsy(Field(req, "salt"))

\* lines 162-169
ProverPayload(req) ==
    [jwt |-> Field(req, "jwt"),
     extendedEphemeralPublicKey |-> Field(req, "extendedEphemeralPublicKey"),
     maxEpoch |-> Field(req, "maxEpoch"), jwtRandomness |-> Field(req, "jwtRandomness"),
     salt |-> Field(req, "salt"), keyClaimName |-> "sub"]

\* the prover's failure answered with a message of the route's own
ProverErrorMessage_generic(answer) == <<"Failed to generate proof">>

\* lines 178-182 and 188-191: the message of the error the route answers with; a text
\* is the sequence of its parts
ProverErrorMessage(answer) ==
    IF answer = NetErr THEN <<"fetch failed">>
    ELSE <<"Prover service error: ", answer[3], " - ", answer[4]>>

\* POST /zkproof, answer being what the prover brings when it is called
ZkProofEndpoint(req, answer) ==
    IF MissingRequiredFields(req)
    THEN Http(400, <<"error", <<"Missing required fields">>>>)
    ELSE IF ~ProverAccepted(answer)
    THEN Http(500, <<"error", ProverErrorMessage(answer)>>)
    ELSE Http(200, answer[4])

\* lines 172-176: the route's call of the prover, none for a request it refuses
ProverCalled(req, answer) ==
    IF MissingRequiredFields(req) THEN NULL ELSE <<ProverPayload(req), answer>>

\* a failure of the prover answered by asking it once more
ProverRequests_retried(req, answer) ==
    IF MissingRequiredFields(req) THEN <<>>
    ELSE IF ProverAccepted(answer) THEN <<"POST prover">>
    ELSE <<"POST prover", "POST prover">>

\* lines 172-182: the requests the route sends to the prover, one fetch whatever the
\* answer is
ProverRequests(req, answer) ==
    IF MissingRequiredFields(req) THEN <<>> ELSE <<"POST prover">>

\* <<response, call of the prover, requests sent>> for each way POST /zkproof can go
ProofExchanges(req) ==
    { <<ZkProofEndpoint(req, answer), ProverCalled(req, answer), ProverRequests(req, answer)>> :
          answer \in ProverAnswers(req) }

\* POST /email-salt-backup
EmailSaltBackupEndpoint(userSub, userSalt) ==
    IF Falsy(userSub) \/ Falsy(userSalt)
    THEN Http(400, <<"error", "Missing userSub or userSalt">>)
    ELSE Http(200, <<"success">>)

-----------------------------------------------------------------------------
(* Results of the client calls *)

Threw(op, kind, detail) == <<op, "error", kind, detail>>
Returned(op, value) == <<op, "ok", "", value>>
Op(r) == IF r = NULL THEN "" ELSE r[1]
Kind(r) == IF r = NULL THEN "" ELSE r[3]
HasReturned(r) == r # NULL /\ r[2] = "ok"
HasThrown(r) == r # NULL /\ r[2] = "error"

NoFrame == [pc |-> "idle"]

-----------------------------------------------------------------------------
(* prepareLogin *)

\* GET /epoch, or the failure of it (a non-OK status or a fetch that throws)
EpochResponses == { Http(200, <<"epoch", epoch>>), Http(500, <<"error", "epoch">>), NetErr }

\* the bound set to the current epoch itself
MaxEpochFor_currentEpoch(currentEpoch) == currentEpoch

\* line 43
MaxEpochFor(currentEpoch) == currentEpoch + 2

\* the randomness of the new attempt not stored
BindingItems_withoutRandomness(ephemeralSecretKey, maxEpoch, randomness, nonce) ==
    [ephemeral_private_key |-> ephemeralSecretKey,
     max_epoch |-> NumToString(maxEpoch),
     nonce |-> nonce]

\* lines 51 and 67-69: the four items prepareLogin stores
BindingItems(ephemeralSecretKey, maxEpoch, randomness, nonce) ==
    [ephemeral_private_key |-> ephemeralSecretKey,
     max_epoch |-> NumToString(maxEpoch),
     randomness |-> randomness,
     nonce |-> nonce]

\* the keypair generated and stored before the epoch is asked for
PrepareLoginFails_afterKeyStored ==
    /\ result' = Threw("prepareLogin", "EpochUnavailable", NULL)
    /\ ss' = SetItems(ss, [ephemeral_private_key |-> SecretKey(fresh + 1)])
    /\ fresh' = fresh + 1

\* lines 38-41 and 85-90: the fetch throws or the response is not OK; the call throws
\* with nothing generated and nothing stored
PrepareLoginFails ==
    /\ result' = Threw("prepareLogin", "EpochUnavailable", NULL)
    /\ UNCHANGED <<ss, fresh>>

\* lines 36-90, resp being what the epoch request brings.  The call reads and writes
\* nothing before its one await, so the dispatch of the epoch request and the
\* resumption with its response are one step.
PrepareLoginOn(resp) ==
    /\ fresh < MaxLogins
    /\ IF ~RespOk(resp)
       THEN PrepareLoginFails
       ELSE LET maxEpoch == MaxEpochFor(resp[3][2])
                ephemeralSecretKey == SecretKey(fresh + 1)
                randomness == Randomness(fresh + 1)
                nonce == generateNonce(PublicKey(ephemeralSecretKey), maxEpoch, randomness)
            IN  /\ ss' = SetItems(ss, BindingItems(ephemeralSecretKey, maxEpoch,
                                                   randomness, nonce))
                /\ fresh' = fresh + 1
                /\ result' = Returned("prepareLogin", nonce)
    /\ prover' = NULL
    /\ sent' = <<"GET /epoch">>
    /\ UNCHANGED <<ls, userSalts, epoch, cz, served, emailed, firstLogin>>
    /\ UNCHANGED kyc_vars

PrepareLogin == \E resp \in EpochResponses : PrepareLoginOn(resp)

-----------------------------------------------------------------------------
(* completeZkLogin *)

\* the randomness not looked at
MissingSessionData_noRandomness(ephemeralPrivateKeyStr, maxEpoch, randomness) ==
    Falsy(ephemeralPrivateKeyStr) \/ Falsy(maxEpoch)

\* line 113
MissingSessionData(ephemeralPrivateKeyStr, maxEpoch, randomness) ==
    Falsy(ephemeralPrivateKeyStr) \/ Falsy(maxEpoch) \/ Falsy(randomness)

\* the check skipped for a token that carries no nonce
NonceDiffers_unlessAbsent(storedNonce, jwtNonce) ==
    jwtNonce # NULL /\ storedNonce # jwtNonce

\* line 124: storedNonce !== decodedJwt.nonce (null !== undefined holds as well)
NonceDiffers(storedNonce, jwtNonce) ==
    storedNonce # jwtNonce \/ (storedNonce = NULL /\ jwtNonce = NULL)

\* the recreated nonce not compared
RecreatedNonceDiffers_skipped(verifyNonce, jwtNonce) == FALSE

\* line 145: verifyNonce !== decodedJwt.nonce
RecreatedNonceDiffers(verifyNonce, jwtNonce) == verifyNonce # jwtNonce

\* lines 100-160: decode, load and check the session, dispatch the salt request
CompleteZkLogin(encodedJWT) ==
    /\ cz.pc = "idle"
    /\ LET ephemeralPrivateKeyStr == ss["ephemeral_private_key"]
           maxEpoch == ss["max_epoch"]
           randomness == ss["randomness"]
           storedNonce == ss["nonce"]
           fail(kind) == /\ result' = Threw("completeZkLogin", kind, NULL)
                         /\ sent' = <<>>
                         /\ UNCHANGED cz
       IN  IF ~Decodes(encodedJWT) THEN fail("MalformedToken")
           ELSE IF MissingSessionData(ephemeralPrivateKeyStr, maxEpoch, randomness)
           THEN fail("MissingSessionData")
           ELSE IF NonceDiffers(storedNonce, Decode(encodedJWT).nonce)
           THEN fail("NonceMismatch")
           ELSE IF RecreatedNonceDiffers(
                       generateNonce(PublicKey(ephemeralPrivateKeyStr), Number(maxEpoch), randomness),
                       Decode(encodedJWT).nonce)
           THEN fail("EphemeralKeyMismatch")
           ELSE /\ cz' = [pc |-> "salt", encodedJWT |-> encodedJWT,
                          ephemeralPrivateKeyStr |-> ephemeralPrivateKeyStr,
                          maxEpoch |-> maxEpoch, randomness |-> randomness,
                          userSalt |-> NULL, zkLoginUserAddress |-> NULL]
                /\ sent' = <<"POST /salt">>
                /\ result' = NULL
    /\ prover' = NULL
    /\ UNCHANGED <<ss, ls, userSalts, epoch, fresh, served, emailed, firstLogin>>
    /\ UNCHANGED kyc_vars

\* the randomness read from the session again when the request is built
ProofRequest_storedRandomness(frame) ==
    [jwt |-> frame.encodedJWT,
     extendedEphemeralPublicKey |->
         getExtendedEphemeralPublicKey(PublicKey(frame.ephemeralPrivateKeyStr)),
     maxEpoch |-> Number(frame.maxEpoch),
     jwtRandomness |-> ss["randomness"],
     salt |-> frame.userSalt]

\* lines 204-221: the body of the proof request, built from the call's own variables
ProofRequest(frame) ==
    [jwt |-> frame.encodedJWT,
     extendedEphemeralPublicKey |->
         getExtendedEphemeralPublicKey(PublicKey(frame.ephemeralPrivateKeyStr)),
     maxEpoch |-> Number(frame.maxEpoch),
     jwtRandomness |-> frame.randomness,
     salt |-> frame.userSalt]

\* lines 201-222: derive the address, dispatch the proof request
DeriveAndRequestProof(userSalt) ==
    /\ cz' = [cz EXCEPT !.pc = "proof", !.userSalt = userSalt,
                        !.zkLoginUserAddress = jwtToAddress(Decode(cz.encodedJWT), userSalt)]
    /\ sent' = <<"POST /zkproof">>

\* line 189
BackupDue(saltBackupSent, sub) == Falsy(saltBackupSent) /\ ~Falsy(sub)

\* the status of the salt response not looked at
SaltResponseOk_unchecked(resp) == TRUE

\* line 163
SaltResponseOk(resp) == RespOk(resp)

\* the device's copy preferred to the answer when there is one
SaltField_deviceFirst(resp) ==
    IF LsGetItem(ls, SaltKey(Decode(cz.encodedJWT).sub)) # NULL
    THEN LsGetItem(ls, SaltKey(Decode(cz.encodedJWT).sub))
    ELSE IF RespOk(resp) THEN resp[3] ELSE NULL

\* lines 164-165: data.salt; a body without a salt has none
SaltField(resp) == IF RespOk(resp) THEN resp[3] ELSE NULL

\* What the salt request can be answered with besides the route's answer: the 500 of
\* the route's catch (part_003 lines 129-134), the plain text of a gateway in front of
\* the server, and a rejection whose details are not JSON
SaltFailures ==
    { Http(500, Stringify([error |-> <<"Internal server error">>])),
      Http(502, <<"Bad Gateway">>),
      Http(403, Stringify([error |-> <<"Salt service error">>,
                           details |-> <<"Invalid JWT">>])) }

\* What the salt request of the call in flight can bring: the route's answer, another
\* failure, or the fetch throws
SaltAnswers == { SaltEndpoint(cz.encodedJWT, userSalts)[1], NetErr } \cup SaltFailures

\* the top-level error reported whenever the body parses
SaltErrorDetails_topLevel(errorText) ==
    IF ~JsonParses(errorText) THEN errorText
    ELSE Field(JsonParse(errorText), "error")

\* lines 167-174: errorDetails of a response that is not OK, errorText being its text
SaltErrorDetails(errorText) ==
    IF ~JsonParses(errorText) THEN errorText
    ELSE LET errorData == JsonParse(errorText)
         IN  IF ~Falsy(Field(errorData, "details"))
             THEN (IF JsonParses(errorData.details)
                   THEN Field(JsonParse(errorData.details), "error")
                   ELSE errorText)
             ELSE Field(errorData, "error")

\* line 180: the message of the error thrown, as its fixed part and the detail; a fetch
\* that threw has its own
SaltErrorMessage(resp) ==
    IF resp = NetErr THEN <<"Failed to fetch", NULL>>
    ELSE <<"Failed to fetch user salt: ", SaltErrorDetails(resp[3])>>

\* The server handles POST /salt (the cache may grow) when the answer is the route's
SaltServed(token, resp) ==
    /\ userSalts' = IF resp = SaltEndpoint(token, userSalts)[1]
                    THEN SaltEndpoint(token, userSalts)[2] ELSE userSalts
    /\ served' = IF RespOk(resp) /\ served[Decode(token).sub] = NULL
                 THEN [served EXCEPT ![Decode(token).sub] = resp[3]]
                 ELSE served

\* lines 162-199: the call resumes with resp, the answer to its salt request
CompleteSaltResumeOn(resp) ==
    /\ cz.pc = "salt"
    /\ SaltServed(cz.encodedJWT, resp)
    /\ IF ~SaltResponseOk(resp)
       THEN /\ cz' = NoFrame
            /\ result' = Threw("completeZkLogin", "SaltServiceError", SaltErrorMessage(resp))
            /\ sent' = <<>>
            /\ UNCHANGED <<ss, ls>>
       ELSE LET userSalt == SaltField(resp)
                sub == Decode(cz.encodedJWT).sub
            IN  /\ ss' = SetItems(ss, [user_salt |-> userSalt])
                /\ ls' = LsSetItem(ls, SaltKey(sub), userSalt)
                /\ IF BackupDue(ss["salt_backup_sent"], sub)
                   THEN /\ cz' = [cz EXCEPT !.pc = "backup", !.userSalt = userSalt]
                        /\ sent' = <<"POST /email-salt-backup">>
                   ELSE DeriveAndRequestProof(userSalt)
                /\ result' = NULL
    /\ prover' = NULL
    /\ UNCHANGED <<epoch, fresh, emailed, firstLogin>>
    /\ UNCHANGED kyc_vars

\* POST /salt is answered, or the fetch throws; the call resumes
CompleteSaltResume ==
    /\ cz.pc = "salt"
    /\ \E resp \in SaltAnswers : CompleteSaltResumeOn(resp)

\* lines 362-371: POST /email-salt-backup is answered by the route (as long as the mail
\* service takes the notification) or with an error, or the fetch throws
BackupResponses(userSub, userSalt) ==
    (IF emailed[userSub] < MaxEmails THEN { EmailSaltBackupEndpoint(userSub, userSalt) } ELSE {})
        \cup { Http(500, <<"error", "Failed to send salt backup email">>), NetErr }

\* The server issues the notification when it answers the request with success
BackupServed(userSub, resp) ==
    emailed' = IF RespOk(resp) THEN [emailed EXCEPT ![userSub] = @ + 1] ELSE emailed

\* lines 373-382: sendSaltBackupEmail throws unless the response is OK
BackupThrows(resp) == ~RespOk(resp)

\* the backup's failure not caught: it ends the call
AfterBackup_uncaught(resp) ==
    IF BackupThrows(resp)
    THEN /\ cz' = NoFrame
         /\ result' = Threw("completeZkLogin", "BackupFailed", resp)
         /\ sent' = <<>>
         /\ UNCHANGED ss
    ELSE /\ ss' = SetItems(ss, [salt_backup_sent |-> <<"true">>])
         /\ DeriveAndRequestProof(cz.userSalt)
         /\ result' = NULL

\* lines 190-222: the backup's failure is caught and logged, its success sets the flag;
\* either way the call goes on to the proof request
AfterBackup(resp) ==
    /\ ss' = IF BackupThrows(resp) THEN ss
             ELSE SetItems(ss, [salt_backup_sent |-> <<"true">>])
    /\ DeriveAndRequestProof(cz.userSalt)
    /\ result' = NULL

\* lines 190-222: the call resumes with the backup response
CompleteBackupResume ==
    /\ cz.pc = "backup"
    /\ \E resp \in BackupResponses(Decode(cz.encodedJWT).sub, cz.userSalt) :
         /\ AfterBackup(resp)
         /\ BackupServed(Decode(cz.encodedJWT).sub, resp)
    /\ prover' = NULL
    /\ UNCHANGED <<ls, userSalts, epoch, fresh, served, firstLogin>>
    /\ UNCHANGED kyc_vars

\* await response.text() of an error response of POST /zkproof
ResponseText(resp) == <<"{\"error\":\"">> \o resp[3][2] \o <<"\"}">>

\* lines 224-228: the message of the error thrown for a proof response that is not OK;
\* a fetch that threw has its own
ProofErrorMessage(resp) ==
    IF resp = NetErr THEN <<"Failed to fetch">>
    ELSE <<"Failed to generate ZK proof: ">> \o ResponseText(resp)

\* the address stored ahead of the proof bundle, which is left for later
StoredSession_withoutProof(partialZkLoginSignature, frame) ==
    [user_salt |-> frame.userSalt,
     decoded_jwt |-> <<"json", Decode(frame.encodedJWT)>>,
     zklogin_address |-> frame.zkLoginUserAddress]

\* lines 233-236: the four items a login stores, in one synchronous run
StoredSession(partialZkLoginSignature, frame) ==
    [zk_proof |-> <<"json", partialZkLoginSignature>>,
     user_salt |-> frame.userSalt,
     decoded_jwt |-> <<"json", Decode(frame.encodedJWT)>>,
     zklogin_address |-> frame.zkLoginUserAddress]

\* lines 224-247: POST /zkproof is answered, or the fetch throws; the call resumes
CompleteProofResume ==
    /\ cz.pc = "proof"
    /\ cz' = NoFrame
    /\ \E exchange \in ProofExchanges(ProofRequest(cz)) \cup { <<NetErr, NULL, <<>>>> } :
         LET resp == exchange[1] IN
         /\ prover' = exchange[2]
         /\ sent' = exchange[3]
         /\ IF ~RespOk(resp)
            THEN /\ result' = Threw("completeZkLogin", "ProofServiceError",
                                    ProofErrorMessage(resp))
                 /\ UNCHANGED ss
            ELSE /\ ss' = SetItems(ss, StoredSession(resp[3], cz))
                 /\ result' = Returned("completeZkLogin", cz.zkLoginUserAddress)
    /\ firstLogin' = IF firstLogin = NULL /\ ss'["zklogin_address"] # ss["zklogin_address"]
                     THEN <<Decode(cz.encodedJWT), cz.zkLoginUserAddress, FALSE>>
                     ELSE firstLogin
    /\ UNCHANGED <<ls, userSalts, epoch, fresh, served, emailed>>
    /\ UNCHANGED kyc_vars

\* lines 324-326
isZkLoginSessionActive == ss["zklogin_address"] # NULL

\* a logout whose list of items lacks the backup-sent flag
ZkLoginLogout_keepsBackupFlag ==
    /\ ss' = [k \in SESSION_KEYS |->
                 IF k = "salt_backup_sent" THEN ss[k] ELSE NULL]
    /\ firstLogin' = IF firstLogin = NULL THEN NULL
                     ELSE <<firstLogin[1], firstLogin[2], TRUE>>
    /\ UNCHANGED <<ls, userSalts, epoch, fresh, cz, served, emailed>>
    /\ UNCHANGED kyc_vars
    /\ result' = NULL
    /\ prover' = NULL
    /\ sent' = <<>>

\* lines 338-342
ZkLoginLogout ==
    /\ ss' = [k \in SESSION_KEYS |-> NULL]
    /\ firstLogin' = IF firstLogin = NULL THEN NULL
                     ELSE <<firstLogin[1], firstLogin[2], TRUE>>
    /\ UNCHANGED <<ls, userSalts, epoch, fresh, cz, served, emailed>>
    /\ UNCHANGED kyc_vars
    /\ result' = NULL
    /\ prover' = NULL
    /\ sent' = <<>>

-----------------------------------------------------------------------------
(* The utilities *)

\* lines 324-326
IsZkLoginSessionActive ==
    /\ result' = Returned("isZkLoginSessionActive", <<"bool", isZkLoginSessionActive>>)
    /\ prover' = NULL
    /\ sent' = <<>>
    /\ UNCHANGED <<ss, ls, userSalts, epoch, fresh, cz, served, emailed, firstLogin>>
    /\ UNCHANGED kyc_vars

\* lines 331-333
GetZkLoginAddress ==
    /\ result' = Returned("getZkLoginAddress", ss["zklogin_address"])
    /\ prover' = NULL
    /\ sent' = <<>>
    /\ UNCHANGED <<ss, ls, userSalts, epoch, fresh, cz, served, emailed, firstLogin>>
    /\ UNCHANGED kyc_vars

\* lines 347-351
GetDecodedJwt ==
    /\ result' = Returned("getDecodedJwt",
                          IF Falsy(ss["decoded_jwt"]) THEN NULL ELSE ss["decoded_jwt"])
    /\ prover' = NULL
    /\ sent' = <<>>
    /\ UNCHANGED <<ss, ls, userSalts, epoch, fresh, cz, served, emailed, firstLogin>>
    /\ UNCHANGED kyc_vars

\* a read that takes the entry out of the device's storage
RecoverSaltFromStorage_consuming(userSub) ==
    /\ result' = Returned("recoverSaltFromStorage", LsGetItem(ls, SaltKey(userSub)))
    /\ ls' = SelectSeq(ls, LAMBDA e : e[1] # SaltKey(userSub))
    /\ prover' = NULL
    /\ sent' = <<>>
    /\ UNCHANGED <<ss, userSalts, epoch, fresh, cz, served, emailed, firstLogin>>
    /\ UNCHANGED kyc_vars

\* lines 388-390
RecoverSaltFromStorage(userSub) ==
    /\ result' = Returned("recoverSaltFromStorage", LsGetItem(ls, SaltKey(userSub)))
    /\ prover' = NULL
    /\ sent' = <<>>
    /\ UNCHANGED <<ss, ls, userSalts, epoch, fresh, cz, served, emailed, firstLogin>>
    /\ UNCHANGED kyc_vars

\* lines 395-403
ClearSaltBackups ==
    /\ ls' = ClearSaltBackupsFrom(ls, 1)
    /\ result' = Returned("clearSaltBackups", NULL)
    /\ prover' = NULL
    /\ sent' = <<>>
    /\ UNCHANGED <<ss, userSalts, epoch, fresh, cz, served, emailed, firstLogin>>
    /\ UNCHANGED kyc_vars

-----------------------------------------------------------------------------
(* executeZkLoginTransaction *)

\* the ephemeral key alone looked at
MissingZkLoginSessionData_keyOnly(ephemeralPrivateKeyStr, zkProofStr, userSalt, decodedJwtStr, maxEpoch) ==
    Falsy(ephemeralPrivateKeyStr)

\* line 262
MissingZkLoginSessionData(ephemeralPrivateKeyStr, zkProofStr, userSalt, decodedJwtStr, maxEpoch) ==
    \/ Falsy(ephemeralPrivateKeyStr) \/ Falsy(zkProofStr) \/ Falsy(userSalt)
    \/ Falsy(decodedJwtStr) \/ Falsy(maxEpoch)

\* lines 297-304: getZkLoginSignature
getZkLoginSignature(zkProof, addressSeed, maxEpoch, userSignature) ==
    [proof |-> zkProof, addressSeed |-> addressSeed, maxEpoch |-> maxEpoch,
     userSignature |-> userSignature]

\* The ledger's check of a zkLogin signature: the proof is bound to the signing key and
\* to the signature's maxEpoch, the address seed is the proof's, the sender is the
\* address of that seed, and maxEpoch is not behind the current epoch
LedgerAccepts(sender, sig, currentEpoch) ==
    LET proof == sig.proof
        claims == Decode(proof[2])
    IN  /\ proof[3] = getExtendedEphemeralPublicKey(PublicKey(sig.userSignature[2]))
        /\ proof[4] = Number(sig.maxEpoch)
        /\ sig.addressSeed = genAddressSeed(proof[6], claims.sub, NormalizeAud(claims.aud))
        /\ sender = <<"addr", claims.iss, sig.addressSeed>>
        /\ currentEpoch <= Number(sig.maxEpoch)

\* the audience taken as it is stored
FirstAud_asGiven(aud) == aud

\* line 285: Array.isArray(decodedJwt.aud) ? decodedJwt.aud[0] : decodedJwt.aud
FirstAud(aud) ==
    IF IsArray(aud)
    THEN (IF Len(aud[2]) > 0 THEN AudStr(aud[2][1]) ELSE NULL)
    ELSE aud

\* the audience never found missing
AudienceMissing_never(aud) == FALSE

\* line 286
AudienceMissing(aud) == Falsy(aud)

\* lines 307-310: what went to the ledger with executeTransactionBlock
Submitted(zkLoginSignature) == <<"submitted", zkLoginSignature>>
HasSubmitted(r) ==
    /\ Op(r) = "executeZkLoginTransaction"
    /\ (HasReturned(r) \/ Kind(r) = "LedgerRejected")

\* lines 254-317: load the session, sign, assemble the signature, submit.  After line
\* 260 the call reads no storage and writes none, so its awaits (the signing and the
\* submission) are folded into the one step; signed is whether the signing succeeded.
ExecuteZkLoginTransaction ==
    /\ LET ephemeralPrivateKeyStr == ss["ephemeral_private_key"]
           maxEpoch == ss["max_epoch"]
           zkProofStr == ss["zk_proof"]
           userSalt == ss["user_salt"]
           decodedJwtStr == ss["decoded_jwt"]
           zkLoginAddress == ss["zklogin_address"]
           fail(kind) == /\ result' = Threw("executeZkLoginTransaction", kind, NULL)
                         /\ sent' = <<>>
       IN  IF MissingZkLoginSessionData(ephemeralPrivateKeyStr, zkProofStr, userSalt,
                                        decodedJwtStr, maxEpoch)
           THEN fail("MissingSessionData")
           ELSE IF Falsy(zkLoginAddress) THEN fail("AddressNotFound")
           ELSE \E signed \in BOOLEAN :
               LET decodedJwt == decodedJwtStr[2]
                   aud == FirstAud(decodedJwt.aud)
                   addressSeed == genAddressSeed(userSalt, decodedJwt.sub, aud)
                   zkLoginSignature ==
                       getZkLoginSignature(zkProofStr[2], addressSeed, maxEpoch,
                                           <<"sig", ephemeralPrivateKeyStr>>)
               IN  IF ~signed THEN fail("SignFailed")
                   ELSE IF AudienceMissing(aud) THEN fail("MissingAudience")
                   ELSE /\ sent' = <<"executeTransactionBlock">>
                        /\ IF LedgerAccepts(zkLoginAddress, zkLoginSignature, epoch)
                           THEN result' = Returned("executeZkLoginTransaction",
                                                   Submitted(zkLoginSignature))
                           ELSE result' = Threw("executeZkLoginTransaction", "LedgerRejected",
                                                Submitted(zkLoginSignature))
    /\ prover' = NULL
    /\ UNCHANGED <<ss, ls, userSalts, epoch, fresh, cz, served, emailed, firstLogin>>
    /\ UNCHANGED kyc_vars

-----------------------------------------------------------------------------
(* zk_login::kyc_auth *)

\* lines 285-293
EInvalidProof == 1
EUserAlreadyExists == 2
EUserNotFound == 3
EKYCNotVerified == 4
EInvalidDigiLockerData == 5
ESessionExpired == 6
EUnauthorized == 7
EInvalidImageHash == 8
EKYCAlreadyCompleted == 9

\* lines 296-297, counted in days (the model checker's integers have 32 bits)
SESSION_VALIDITY_MS == 1
KYC_EXPIRY_MS == 365

\* line 406: min_verification_level of the ZKVerifierConfig that init shares
min_verification_level == 1

\* The accounts that send transactions; the holder of the AdminCap is another one
Addresses == { "0xA", "0xB" }

\* vector<u8>: its length and what it is made of, a sequence of <<kind, number>>
Bytes(len, parts) == [len |-> len, parts |-> parts]
\* vector::empty(), vector::length, vector::append
empty == Bytes(0, <<>>)
length(v) == v.len
append(a, b) == Bytes(a.len + b.len, a.parts \o b.parts)
\* lines 782-785: the placeholder returns its input
hash_data(data) == data
\* lines 788-798
u64_to_bytes(value) == Bytes(8, << <<"u64", value>> >>)
\* lines 801-803
address_to_bytes(addr) == Bytes(32, << <<"address", IF addr = "0xA" THEN 1 ELSE 2>> >>)
\* lines 766-771
generate_nullifier(commitment, timestamp) == hash_data(append(commitment, u64_to_bytes(timestamp)))
\* lines 774-779
generate_session_token(user, timestamp) ==
    hash_data(append(address_to_bytes(user), u64_to_bytes(timestamp)))
\* lines 750-763: the placeholder accepts every proof
verify_zk_proof(verification_key, zk_proof, public_inputs, commitment) == TRUE

\* What the transactions are sent with
DigiLockerIds == { Bytes(12, << <<"digilocker", 1>> >>), empty }
AadhaarHashes == { Bytes(32, << <<"aadhaar", 1>> >>), Bytes(16, << <<"aadhaar", 2>> >>) }
PhotoHashes == { Bytes(32, << <<"photo", 1>> >>), Bytes(16, << <<"photo", 2>> >>) }
PhotoMetadata == Bytes(32, << <<"metadata", 1>> >>)
Commitments == { Bytes(32, << <<"commitment", 1>> >>) }
VerificationLevels == { 0, 1 }

\* table::contains(&registry.users, a)
contains(users, a) == a \in DOMAIN users
\* table::add
add(users, a, identity) ==
    [x \in DOMAIN users \cup {a} |-> IF x = a THEN identity ELSE users[x]]

\* A transaction aborts: everything on the ledger stays as it was
Aborts(function, sender, code, argument) ==
    /\ tx' = <<function, sender, code, argument>>
    /\ UNCHANGED <<registry, credentials, sessions, barred>>
\* A transaction is committed
Commits(function, sender, argument) == tx' = <<function, sender, 0, argument>>

\* lines 417-461
register_user(sender, digilocker_id, aadhaar_hash) ==
    /\ IF contains(registry.users, sender)
       THEN Aborts("register_user", sender, EUserAlreadyExists, NULL)
       ELSE IF ~(length(digilocker_id) > 0)
       THEN Aborts("register_user", sender, EInvalidDigiLockerData, NULL)
       ELSE IF ~(length(aadhaar_hash) = 32)
       THEN Aborts("register_user", sender, EInvalidDigiLockerData, NULL)
       ELSE LET user_identity ==
                    [user_address |-> sender, digilocker_id |-> digilocker_id,
                     aadhaar_hash |-> aadhaar_hash, live_photo_hash |-> empty,
                     zk_identity_commitment |-> empty, kyc_status |-> 0,
                     kyc_timestamp |-> 0, kyc_expiry |-> 0, verification_level |-> 0]
            IN  /\ registry' = [registry EXCEPT
                                   !.users = add(registry.users, sender, user_identity),
                                   !.total_users = registry.total_users + 1]
                /\ Commits("register_user", sender, NULL)
                /\ UNCHANGED <<credentials, sessions, barred>>
    /\ UNCHANGED clock
    /\ UNCHANGED login_vars

\* lines 466-489
submit_live_photo(sender, live_photo_hash, photo_metadata_hash) ==
    /\ IF ~contains(registry.users, sender)
       THEN Aborts("submit_live_photo", sender, EUserNotFound, NULL)
       ELSE IF ~(length(live_photo_hash) = 32)
       THEN Aborts("submit_live_photo", sender, EInvalidImageHash, NULL)
       ELSE IF ~(registry.users[sender].kyc_status # 2)
       THEN Aborts("submit_live_photo", sender, EKYCAlreadyCompleted, NULL)
       ELSE /\ registry' = [registry EXCEPT
                               !.users[sender].kyc_status = 1,
                               !.users[sender].live_photo_hash =
                                   hash_data(append(live_photo_hash, photo_metadata_hash))]
            /\ Commits("submit_live_photo", sender, NULL)
            /\ UNCHANGED <<credentials, sessions, barred>>
    /\ UNCHANGED clock
    /\ UNCHANGED login_vars

\* lines 492-540; the holder of the AdminCap sends it
complete_kyc_verification(user_address, zk_identity_commitment, verification_level) ==
    /\ Len(credentials) < MaxCredentials
    /\ IF ~contains(registry.users, user_address)
       THEN Aborts("complete_kyc_verification", user_address, EUserNotFound, NULL)
       ELSE IF ~(length(registry.users[user_address].live_photo_hash) > 0)
       THEN Aborts("complete_kyc_verification", user_address, EInvalidImageHash, NULL)
       ELSE LET current_time == clock
                user == registry.users[user_address]
                credential ==
                    [user_address |-> user_address,
                     identity_commitment |-> zk_identity_commitment,
                     nullifier_hash |-> generate_nullifier(zk_identity_commitment, current_time),
                     issued_at |-> current_time,
                     expires_at |-> current_time + KYC_EXPIRY_MS,
                     is_active |-> TRUE]
            IN  /\ registry' = [registry EXCEPT
                       !.users[user_address] =
                           [user EXCEPT !.zk_identity_commitment = zk_identity_commitment,
                                        !.kyc_status = 2,
                                        !.kyc_timestamp = current_time,
                                        !.kyc_expiry = current_time + KYC_EXPIRY_MS,
                                        !.verification_level = verification_level],
                       !.zk_proofs = IF zk_identity_commitment \in DOMAIN registry.zk_proofs
                                     THEN registry.zk_proofs
                                     ELSE add(registry.zk_proofs, zk_identity_commitment,
                                              user_address),
                       !.verified_users = registry.verified_users + 1]
                /\ credentials' = Append(credentials, credential)
                /\ barred' = [barred EXCEPT ![user_address] = FALSE]
                /\ Commits("complete_kyc_verification", user_address, NULL)
                /\ UNCHANGED sessions
    /\ UNCHANGED clock
    /\ UNCHANGED login_vars

\* lines 565-567: the code zk_login aborts with for the user's KYC, 0 when it passes
KycRefused(user, current_time) ==
    IF ~(user.kyc_status = 2) THEN EKYCNotVerified
    ELSE IF ~(user.kyc_expiry > current_time) THEN ESessionExpired
    ELSE IF ~(user.verification_level >= min_verification_level) THEN EKYCNotVerified
    ELSE 0

\* lines 545-599; c is the place of the credential presented among the credentials
zk_login(sender, c) ==
    /\ Len(sessions) < MaxSessions
    /\ LET current_time == clock
           credential == credentials[c]
       IN  IF ~(credential.user_address = sender)
           THEN Aborts("zk_login", sender, EUnauthorized, c)
           ELSE IF ~credential.is_active
           THEN Aborts("zk_login", sender, EUnauthorized, c)
           ELSE IF ~(credential.expires_at > current_time)
           THEN Aborts("zk_login", sender, ESessionExpired, c)
           ELSE IF ~contains(registry.users, sender)
           THEN Aborts("zk_login", sender, EUserNotFound, c)
           ELSE IF KycRefused(registry.users[sender], current_time) # 0
           THEN Aborts("zk_login", sender, KycRefused(registry.users[sender], current_time), c)
           ELSE IF ~verify_zk_proof(NULL, NULL, NULL, credential.identity_commitment)
           THEN Aborts("zk_login", sender, EInvalidProof, c)
           ELSE LET session ==
                        [user_address |-> sender,
                         session_token_hash |-> generate_session_token(sender, current_time),
                         created_at |-> current_time,
                         expires_at |-> current_time + SESSION_VALIDITY_MS,
                         last_activity |-> current_time]
                IN  /\ sessions' = Append(sessions, session)
                    /\ Commits("zk_login", sender, c)
                    /\ UNCHANGED <<registry, credentials, barred>>
    /\ UNCHANGED clock
    /\ UNCHANGED login_vars

\* lines 645-666; the holder of the AdminCap sends it
revoke_kyc(user_address) ==
    /\ IF ~contains(registry.users, user_address)
       THEN Aborts("revoke_kyc", user_address, EUserNotFound, NULL)
       ELSE /\ registry' = [registry EXCEPT
                               !.users[user_address].kyc_status = 3,
                               !.verified_users = IF registry.verified_users > 0
                                                  THEN registry.verified_users - 1
                                                  ELSE registry.verified_users]
            /\ barred' = [barred EXCEPT ![user_address] = TRUE]
            /\ Commits("revoke_kyc", user_address, NULL)
            /\ UNCHANGED <<credentials, sessions>>
    /\ UNCHANGED clock
    /\ UNCHANGED login_vars

\* lines 689-696
deactivate_credential(sender, c) ==
    /\ IF ~(credentials[c].user_address = sender)
       THEN Aborts("deactivate_credential", sender, EUnauthorized, c)
       ELSE /\ credentials' = [credentials EXCEPT ![c].is_active = FALSE]
            /\ barred' = [barred EXCEPT ![sender] = TRUE]
            /\ Commits("deactivate_credential", sender, c)
            /\ UNCHANGED <<registry, sessions>>
    /\ UNCHANGED clock
    /\ UNCHANGED login_vars

\* The ledger's clock moves on by the time a verification is valid for
AdvanceClock ==
    /\ clock < MaxClock * KYC_EXPIRY_MS
    /\ clock' = clock + KYC_EXPIRY_MS
    /\ tx' = NULL
    /\ UNCHANGED <<registry, credentials, sessions, barred>>
    /\ UNCHANGED login_vars

-----------------------------------------------------------------------------
(* The environment *)

\* a browser that drops the binding once the ledger is past its maxEpoch
AdvanceEpoch_evicting ==
    /\ epoch < MaxEpoch
    /\ epoch' = epoch + 1
    /\ ss' = IF ss["max_epoch"] # NULL /\ Number(ss["max_epoch"]) < epoch + 1
             THEN SetItems(ss, [ephemeral_private_key |-> NULL, max_epoch |-> NULL,
                                randomness |-> NULL, nonce |-> NULL])
             ELSE ss
    /\ UNCHANGED <<ls, userSalts, fresh, cz, served, emailed, firstLogin>>
    /\ UNCHANGED kyc_vars
    /\ result' = NULL
    /\ prover' = NULL
    /\ sent' = <<>>

\* The ledger moves to its next epoch; nothing in the browser is tied to it
AdvanceEpoch ==
    /\ epoch < MaxEpoch
    /\ epoch' = epoch + 1
    /\ UNCHANGED <<ss, ls, userSalts, fresh, cz, served, emailed, firstLogin>>
    /\ UNCHANGED kyc_vars
    /\ result' = NULL
    /\ prover' = NULL
    /\ sent' = <<>>

\* The server process restarts: the in-memory userSalts map is empty again
ServerRestart ==
    /\ userSalts' = [s \in Subs |-> NULL]
    /\ result' = NULL
    /\ prover' = NULL
    /\ sent' = <<>>
    /\ UNCHANGED <<ss, ls, epoch, fresh, cz, served, emailed, firstLogin>>
    /\ UNCHANGED kyc_vars

\* Some other client posts a token to /salt
DirectSaltRequest(token) ==
    /\ SaltServed(token, SaltEndpoint(token, userSalts)[1])
    /\ result' = NULL
    /\ prover' = NULL
    /\ sent' = <<>>
    /\ UNCHANGED <<ss, ls, epoch, fresh, cz, emailed, firstLogin>>
    /\ UNCHANGED kyc_vars

\* A client posts a body to /salt and has the answer; token is the body's token, NULL
\* for a body without one
PostSalt(token) ==
    /\ SaltServed(token, SaltEndpoint(token, userSalts)[1])
    /\ result' = Returned("POST /salt", <<token, SaltEndpoint(token, userSalts)[1]>>)
    /\ prover' = NULL
    /\ sent' = <<>>
    /\ UNCHANGED <<ss, ls, epoch, fresh, cz, emailed, firstLogin>>
    /\ UNCHANGED kyc_vars

\* Some other client posts a proof request to /zkproof
DirectProofRequest(req) ==
    /\ \E exchange \in ProofExchanges(req) :
         /\ result' = Returned("POST /zkproof", <<req, exchange[1]>>)
         /\ prover' = exchange[2]
         /\ sent' = exchange[3]
    /\ UNCHANGED <<ss, ls, userSalts, epoch, fresh, cz, served, emailed, firstLogin>>
    /\ UNCHANGED kyc_vars

\* The binding as prepareLogin left it: all four items there, the nonce that of the rest
BindingIntact ==
    /\ \A k \in {"ephemeral_private_key", "max_epoch", "randomness", "nonce"} : ss[k] # NULL
    /\ ss["nonce"] = generateNonce(PublicKey(ss["ephemeral_private_key"]),
                                   Number(ss["max_epoch"]), ss["randomness"])

\* What an item of the binding can be replaced by: the item of some other session
ForeignItems ==
    [ephemeral_private_key |-> SecretKey(0), max_epoch |-> NumToString(InitEpoch),
     randomness |-> Randomness(0),
     nonce |-> generateNonce(PublicKey(SecretKey(0)), InitEpoch, Randomness(0))]

\* Session storage is altered from outside the client code (another script of the
\* page, the developer tools): one item of an intact binding is deleted or replaced.
\* It happens between two calls: completeZkLogin reads the binding once, before its
\* first await, so an alteration while it is suspended is one before the next call.
CorruptBinding(key, deleted) ==
    /\ cz.pc = "idle"
    /\ BindingIntact
    /\ ss' = [ss EXCEPT ![key] = IF deleted THEN NULL ELSE ForeignItems[key]]
    /\ result' = NULL
    /\ prover' = NULL
    /\ sent' = <<>>
    /\ UNCHANGED <<ls, userSalts, epoch, fresh, cz, served, emailed, firstLogin>>
    /\ UNCHANGED kyc_vars

\* The same for the stored claims: their audience is removed or emptied
CorruptAudience(aud) ==
    /\ cz.pc = "idle"
    /\ ss["decoded_jwt"] # NULL
    /\ ~Falsy(NormalizeAud(ss["decoded_jwt"][2].aud))
    /\ ss' = [ss EXCEPT !["decoded_jwt"] = <<"json", [ss["decoded_jwt"][2] EXCEPT !.aud = aud]>>]
    /\ result' = NULL
    /\ prover' = NULL
    /\ sent' = <<>>
    /\ UNCHANGED <<ls, userSalts, epoch, fresh, cz, served, emailed, firstLogin>>
    /\ UNCHANGED kyc_vars

\* A salt that is not the server's for the subject: that of a server with another
\* master secret
ForeignSalt(sub) == DeriveSalt(<<"secret", 1>>, sub)

\* The device's copy of the salt is altered from outside the client code, or is left
\* from a login against a server with another master secret
TamperDeviceSalt(sub) ==
    /\ ls' = LsSetItem(ls, SaltKey(sub), ForeignSalt(sub))
    /\ ls' # ls
    /\ result' = NULL
    /\ prover' = NULL
    /\ sent' = <<>>
    /\ UNCHANGED <<ss, userSalts, epoch, fresh, cz, served, emailed, firstLogin>>
    /\ UNCHANGED kyc_vars

\* The keys of localStorage: the salt copies of the subjects that logged in on this
\* device (line 185), and what else the page keeps there
DeviceKeys == { SaltKey(sub) : sub \in Subs } \cup { <<"theme">>, <<"lang">> }

\* An entry is put into localStorage: line 185 of an earlier login, or another script
DeviceWrite(key) ==
    /\ Len(ls) < MaxDeviceItems
    /\ \A i \in 1..Len(ls) : ls[i][1] # key
    /\ ls' = LsSetItem(ls, key, IF HasSaltPrefix(key) THEN DeriveSalt(masterSecret, key[2])
                                ELSE <<"dark">>)
    /\ result' = NULL
    /\ prover' = NULL
    /\ sent' = <<>>
    /\ UNCHANGED <<ss, userSalts, epoch, fresh, cz, served, emailed, firstLogin>>
    /\ UNCHANGED kyc_vars

\* The nonce of a session of some other browser
ForeignNonce == generateNonce(PublicKey(SecretKey(0)), InitEpoch, Randomness(0))
\* The tokens a callback can carry: any claims; no nonce, the session's nonce, the
\* nonce of the token of the last login (a stale token), or a foreign one
Nonces ==
    { NULL, ForeignNonce, ss["nonce"] }
        \cup (IF ss["decoded_jwt"] = NULL THEN {} ELSE { ss["decoded_jwt"][2].nonce })
Audiences ==
    { AudStr(CLIENT_ID), AudList(<<CLIENT_ID>>), AudStr("client-b"), NULL }
TokensOf(subs, auds, nonces) ==
    { Jwt(Claims(Issuer, sub, aud, nonce)) :
          sub \in subs \cup {NULL}, aud \in auds, nonce \in nonces } \cup { Garbage }
\* What the identity provider's redirect can bring to this browser: a token of the
\* session's nonce with any subject and audience, a token with any nonce, or garbage
Tokens ==
    TokensOf(BrowserSubs, Audiences, { ss["nonce"] })
        \cup TokensOf(BrowserSubs, { AudStr(CLIENT_ID) }, Nonces)
\* What any client can post to the server
PostedTokens == TokensOf(Subs, { AudStr(CLIENT_ID), AudStr("client-b") }, { ForeignNonce })

\* What can be posted to /salt: tokens with any subject and audience (a list's first
\* entry counts), three parts that are no JWT, a string that has not three parts, and
\* no token at all
ServerTokens ==
    TokensOf(Subs, Audiences \cup { AudList(<<"client-b", CLIENT_ID>>), AudList(<<>>) },
             { ForeignNonce })
        \cup { Opaque, NULL }

\* A token any client may post for a subject
TokenFor(sub) == Jwt(Claims(Issuer, sub, AudStr(CLIENT_ID), ForeignNonce))
\* The five inputs of a proof request
ProofFields == { "jwt", "extendedEphemeralPublicKey", "maxEpoch", "jwtRandomness", "salt" }
CompleteProofRequest(sub) ==
    [jwt |-> TokenFor(sub),
     extendedEphemeralPublicKey |-> getExtendedEphemeralPublicKey(PublicKey(SecretKey(0))),
     maxEpoch |-> MaxEpochFor(InitEpoch),
     jwtRandomness |-> Randomness(0),
     salt |-> DeriveSalt(masterSecret, sub)]
\* The bodies any client can post to /zkproof: a complete request, one with some of its
\* properties left out, with an empty one, or with maxEpoch 0
PostedProofRequests ==
    UNION { { [f \in present |-> CompleteProofRequest(sub)[f]] : present \in SUBSET ProofFields }
              \cup { [CompleteProofRequest(sub) EXCEPT ![f] = NULL] : f \in ProofFields \ {"maxEpoch"} }
              \cup { [CompleteProofRequest(sub) EXCEPT !.maxEpoch = 0] }
            : sub \in Subs }

-----------------------------------------------------------------------------

Init ==
    /\ ss = [k \in SESSION_KEYS |-> NULL]
    /\ ls = <<>>
    /\ userSalts = [s \in Subs |-> NULL]
    /\ epoch = InitEpoch
    /\ fresh = 0
    /\ cz = NoFrame
    /\ firstLogin = NULL
    /\ served = [s \in Subs |-> NULL]
    /\ emailed = [s \in Subs |-> 0]
    /\ result = NULL
    /\ prover = NULL
    /\ sent = <<>>
    /\ registry = [users |-> <<>>, zk_proofs |-> <<>>, total_users |-> 0, verified_users |-> 0]
    /\ credentials = <<>>
    /\ sessions = <<>>
    /\ clock = 0
    /\ barred = [a \in Addresses |-> FALSE]
    /\ tx = NULL

\* One browser's calls, completing in any interleaving the awaits allow
Client ==
    \/ PrepareLogin
    \/ \E encodedJWT \in Tokens : CompleteZkLogin(encodedJWT)
    \/ CompleteSaltResume
    \/ CompleteBackupResume
    \/ CompleteProofResume
    \/ ZkLoginLogout
    \/ ExecuteZkLoginTransaction

\* The browser, the server's restarts and other clients' salt requests, at a fixed
\* ledger epoch
Next ==
    \/ Client
    \/ ServerRestart
    \/ \E token \in PostedTokens : DirectSaltRequest(token)

Spec == Init /\ [][Next]_vars

\* The browser against a server that stays up, while the ledger's epochs go by
NextEpoch ==
    \/ Client
    \/ AdvanceEpoch

SpecEpoch == Init /\ [][NextEpoch]_vars

\* The server alone, with the requests any client can post to it
NextServer ==
    \/ ServerRestart
    \/ \E token \in ServerTokens : PostSalt(token)
    \/ \E req \in PostedProofRequests : DirectProofRequest(req)

SpecServer == Init /\ [][NextServer]_vars

\* The browser with session storage that can be altered under the client code
NextCorrupt ==
    \/ Client
    \/ \E key \in DOMAIN ForeignItems, deleted \in BOOLEAN : CorruptBinding(key, deleted)
    \/ \E aud \in { NULL, AudList(<<>>) } : CorruptAudience(aud)

SpecCorrupt == Init /\ [][NextCorrupt]_vars

\* The utilities that read the session and the device's storage
Reads ==
    \/ IsZkLoginSessionActive
    \/ GetZkLoginAddress
    \/ GetDecodedJwt
    \/ \E userSub \in BrowserSubs : RecoverSaltFromStorage(userSub)

\* The browser with its utilities, and a device copy of the salt that can differ from
\* the server's
NextDevice ==
    \/ Client
    \/ Reads
    \/ \E sub \in BrowserSubs : TamperDeviceSalt(sub)

SpecDevice == Init /\ [][NextDevice]_vars

\* The device's storage alone: it is filled, read and cleared
NextStorage ==
    \/ \E key \in DeviceKeys : DeviceWrite(key)
    \/ \E userSub \in Subs : RecoverSaltFromStorage(userSub)
    \/ ClearSaltBackups

SpecStorage == Init /\ [][NextStorage]_vars

\* The kyc_auth package with the transactions its users and its admin send
NextKyc ==
    \/ \E sender \in Addresses, digilocker_id \in DigiLockerIds, aadhaar_hash \in AadhaarHashes :
           register_user(sender, digilocker_id, aadhaar_hash)
    \/ \E sender \in Addresses, live_photo_hash \in PhotoHashes :
           submit_live_photo(sender, live_photo_hash, PhotoMetadata)
    \/ \E user_address \in Addresses, zk_identity_commitment \in Commitments,
          verification_level \in VerificationLevels :
           complete_kyc_verification(user_address, zk_identity_commitment, verification_level)
    \/ \E sender \in Addresses, c \in 1..Len(credentials) : zk_login(sender, c)
    \/ \E user_address \in Addresses : revoke_kyc(user_address)
    \/ \E sender \in Addresses, c \in 1..Len(credentials) : deactivate_credential(sender, c)
    \/ AdvanceClock

SpecKyc == Init /\ [][NextKyc]_vars

\* The browser's calls one after the other: a call begins only when no completeZkLogin
\* is suspended
NextSerial ==
    \/ cz.pc = "idle" /\ PrepareLogin
    \/ \E encodedJWT \in Tokens : CompleteZkLogin(encodedJWT)
    \/ CompleteSaltResume
    \/ CompleteBackupResume
    \/ CompleteProofResume
    \/ cz.pc = "idle" /\ ZkLoginLogout
    \/ cz.pc = "idle" /\ ExecuteZkLoginTransaction

SpecSerial == Init /\ [][NextSerial]_vars

\* What the redirect can bring to a browser that several users share: a token of the
\* session's nonce for any of them
SharedTokens == TokensOf(Subs, { AudStr(CLIENT_ID) }, { ss["nonce"] })

\* One browser used by several subjects
NextShared ==
    \/ PrepareLogin
    \/ \E encodedJWT \in SharedTokens : CompleteZkLogin(encodedJWT)
    \/ CompleteSaltResume
    \/ CompleteBackupResume
    \/ CompleteProofResume
    \/ ZkLoginLogout
    \/ ExecuteZkLoginTransaction

SpecShared == Init /\ [][NextShared]_vars

-----------------------------------------------------------------------------
(* Properties *)

Authenticated == ss["zklogin_address"] # NULL
BindingPresent ==
    /\ ss["ephemeral_private_key"] # NULL /\ ss["max_epoch"] # NULL
    /\ ss["randomness"] # NULL

\* The token's nonce is not exactly the persisted one, or either is absent
NonceNotEqual(token) ==
    \/ ss["nonce"] = NULL
    \/ Decode(token).nonce = NULL
    \/ ss["nonce"] # Decode(token).nonce

\* C1 as stated: every completeZkLogin call with a token whose nonce is not exactly the
\* persisted nonce (either may be absent) throws the nonce-mismatch error, leaves the
\* call's frame idle (no salt, backup or proof request in flight) and writes nothing.
C1_Original ==
    [][\A t \in Tokens :
          (CompleteZkLogin(t) /\ Decodes(t) /\ NonceNotEqual(t))
              => /\ result' = Threw("completeZkLogin", "NonceMismatch", NULL)
                 /\ cz' = NoFrame
                 /\ UNCHANGED <<ss, ls, userSalts, served>>]_vars

\* C1 amended: such a call throws, the missing-session error when the persisted key,
\* maxEpoch or randomness is absent and the nonce-mismatch error otherwise; no request
\* is in flight afterwards and neither storage nor the salt cache is touched.
C1_NonceMismatchFailsClosed ==
    [][\A t \in Tokens :
          (CompleteZkLogin(t) /\ Decodes(t) /\ NonceNotEqual(t))
              => /\ result' = Threw("completeZkLogin",
                                    IF BindingPresent THEN "NonceMismatch"
                                    ELSE "MissingSessionData", NULL)
                 /\ cz' = NoFrame
                 /\ UNCHANGED <<ss, ls, userSalts, served>>]_vars

\* A call was refused for its nonce while a session with a nonce was persisted
C1_Witness ==
    /\ result = Threw("completeZkLogin", "NonceMismatch", NULL)
    /\ ss["nonce"] # NULL

\* C2: whenever a proof bundle is persisted, it is bound to the extended public key of
\* the persisted ephemeral key and to the persisted maxEpoch.
C2_ProofBoundToPersistedBinding ==
    ss["zk_proof"] # NULL =>
        /\ ss["ephemeral_private_key"] # NULL
        /\ ss["max_epoch"] # NULL
        /\ ss["zk_proof"][2][3] =
               getExtendedEphemeralPublicKey(PublicKey(ss["ephemeral_private_key"]))
        /\ ss["zk_proof"][2][4] = Number(ss["max_epoch"])

C4_StaleRerunChangesNothing ==
    [][(/\ Authenticated
        /\ cz.pc # "idle"
        /\ <<"json", Decode(cz.encodedJWT)>> = ss["decoded_jwt"]
        /\ cz' # cz)
           => UNCHANGED <<ss, ls, userSalts>>]_vars

\* C5: when completeZkLogin has thrown the proof-service error, the ephemeral key and
\* the nonce are gone from the session.
C5_ProofFailureDiscardsBinding ==
    (Op(result) = "completeZkLogin" /\ Kind(result) = "ProofServiceError")
        => (ss["ephemeral_private_key"] = NULL /\ ss["nonce"] = NULL)

\* C6: when completeZkLogin has thrown and no login is persisted, the session holds no
\* salt, backup-sent flag, proof bundle or claims (all that is there a failed attempt
\* wrote).
C6_NoPartialSuccess ==
    (Op(result) = "completeZkLogin" /\ HasThrown(result) /\ ~Authenticated)
        => /\ ss["user_salt"] = NULL /\ ss["salt_backup_sent"] = NULL
           /\ ss["zk_proof"] = NULL /\ ss["decoded_jwt"] = NULL

\* C7: executeZkLoginTransaction on a complete session whose maxEpoch the ledger epoch
\* has passed throws the session-expired error and submits nothing (a call that
\* failed in building and signing the transaction is left aside).
C7_ExpiredSessionRefused ==
    (/\ Op(result) = "executeZkLoginTransaction"
     /\ Kind(result) # "SignFailed"
     /\ ~MissingZkLoginSessionData(ss["ephemeral_private_key"], ss["zk_proof"],
                                   ss["user_salt"], ss["decoded_jwt"], ss["max_epoch"])
     /\ Authenticated
     /\ epoch > Number(ss["max_epoch"]))
        => Kind(result) = "SessionExpired"

\* C8: once a salt request for a subject was accepted, every request for that subject
\* is answered with that same salt, whatever the cache holds by now.
C8_SaltStable ==
    \A sub \in Subs :
        served[sub] # NULL =>
            SaltEndpoint(TokenFor(sub), userSalts)[1] = Http(200, served[sub])

\* A subject was served, the cache has lost it since, and holds another subject
C8_Witness ==
    \E sub \in Subs, other \in Subs :
        /\ served[sub] # NULL /\ userSalts[sub] = NULL
        /\ other # sub /\ userSalts[other] # NULL

\* The identity claims an address depends on
Identity(claims) == <<claims.iss, claims.sub, claims.aud>>

\* C9: a persisted address of a login for the identity (issuer, subject, audience) of
\* the first login that succeeded is the address of that first login, whatever key,
\* randomness, nonce and maxEpoch either login was bound to.
C9_SameAddress ==
    (Authenticated /\ firstLogin # NULL
        /\ Identity(ss["decoded_jwt"][2]) = Identity(firstLogin[1]))
        => ss["zklogin_address"] = firstLogin[2]

\* A second login for the identity of the first, after a logout and with another key,
\* maxEpoch, randomness and nonce, persisted its address
C9_Witness ==
    /\ Authenticated /\ firstLogin # NULL /\ firstLogin[3]
    /\ Identity(ss["decoded_jwt"][2]) = Identity(firstLogin[1])
    /\ ss["decoded_jwt"][2].nonce[2] # firstLogin[1].nonce[2]
    /\ ss["decoded_jwt"][2].nonce[3] # firstLogin[1].nonce[3]
    /\ ss["decoded_jwt"][2].nonce[4] # firstLogin[1].nonce[4]
    /\ ss["zk_proof"][2][3] = getExtendedEphemeralPublicKey(ss["decoded_jwt"][2].nonce[2])

\* C10: whatever the backup request's response, the step that receives it throws
\* nothing, goes on to the same proof request, and changes no item of the session but
\* the backup-sent flag, which is set on success alone.
C10_BackupNeverFailsLogin ==
    [][(cz.pc = "backup" /\ cz' # cz)
          => /\ result' = NULL
             /\ cz' = [cz EXCEPT !.pc = "proof",
                                 !.zkLoginUserAddress =
                                     jwtToAddress(Decode(cz.encodedJWT), cz.userSalt)]
             /\ \A k \in SESSION_KEYS \ {"salt_backup_sent"} : ss'[k] = ss[k]
             /\ ss'["salt_backup_sent"] \in {ss["salt_backup_sent"], <<"true">>}
             /\ UNCHANGED <<ls, userSalts>>]_vars

\* A login succeeded although its backup request had failed
C10_Witness ==
    /\ HasReturned(result) /\ Op(result) = "completeZkLogin"
    /\ ss["salt_backup_sent"] = NULL

\* C11: for every subject the server has issued at most one backup notification,
\* whatever logins, logouts and repeated callbacks there were.
C11_BackupAtMostOnce == \A sub \in Subs : emailed[sub] <= 1

\* C12: a step that removes any item of the session removes all nine of them, and the
\* session is not active afterwards: no state with only some items removed exists.
C12_LogoutErasesAll ==
    [][(\E k \in SESSION_KEYS : ss[k] # NULL /\ ss'[k] = NULL)
          => /\ \A k \in SESSION_KEYS : ss'[k] = NULL
             /\ ss'["zklogin_address"] = NULL]_vars

\* A logout ended a complete session: nothing of it is left and it is not active
C12_Witness ==
    /\ firstLogin # NULL /\ firstLogin[3]
    /\ \A k \in SESSION_KEYS : ss[k] = NULL
    /\ ~isZkLoginSessionActive

\* The nonce of the persisted key, maxEpoch and randomness
RecomputedNonce ==
    generateNonce(PublicKey(ss["ephemeral_private_key"]), Number(ss["max_epoch"]),
                  ss["randomness"])

\* C13: a salt request is dispatched only when the persisted nonce and the nonce
\* recomputed from the persisted key, maxEpoch and randomness both equal the token's;
\* a call whose persisted nonce equals the token's while the recomputed one differs
\* throws and dispatches nothing.
C13_BothNonceChecks ==
    [][/\ (cz.pc = "idle" /\ cz'.pc = "salt")
            => /\ ss["nonce"] = Decode(cz'.encodedJWT).nonce
               /\ RecomputedNonce = Decode(cz'.encodedJWT).nonce
       /\ (BindingPresent /\ ss["nonce"] # NULL /\ ss["nonce"] # RecomputedNonce)
            => \A t \in Tokens :
                 (/\ Decodes(t) /\ ss["nonce"] = Decode(t).nonce
                  /\ CompleteZkLogin(t))
                    => /\ HasThrown(result') /\ Op(result') = "completeZkLogin"
                       /\ cz' = NoFrame
                       /\ UNCHANGED <<ss, ls, userSalts>>]_vars

\* A call was refused for the recomputed nonce although the persisted one is there
C13_Witness ==
    /\ Op(result) = "completeZkLogin" /\ Kind(result) = "EphemeralKeyMismatch"
    /\ BindingPresent /\ ss["nonce"] # NULL /\ ss["nonce"] # RecomputedNonce

\* C14 as stated: every completeZkLogin call made while the persisted key, maxEpoch or
\* randomness is missing throws the missing-session error, dispatches nothing and
\* persists nothing.
C14_Original ==
    [][~BindingPresent =>
          \A t \in Tokens :
              CompleteZkLogin(t)
                  => /\ result' = Threw("completeZkLogin", "MissingSessionData", NULL)
                     /\ cz' = NoFrame
                     /\ UNCHANGED <<ss, ls, userSalts>>]_vars

\* C14 amended: such a call with a token that decodes throws the missing-session
\* error (a token that does not decode fails as malformed before the session is
\* loaded); either way nothing is dispatched and nothing is persisted.
C14_MissingSessionFailsClosed ==
    [][~BindingPresent =>
          \A t \in Tokens :
              CompleteZkLogin(t)
                  => /\ result' = Threw("completeZkLogin",
                                        IF Decodes(t) THEN "MissingSessionData"
                                        ELSE "MalformedToken", NULL)
                     /\ cz' = NoFrame
                     /\ UNCHANGED <<ss, ls, userSalts>>]_vars

\* A call was refused for a session of which the randomness alone was deleted
C14_Witness ==
    /\ result = Threw("completeZkLogin", "MissingSessionData", NULL)
    /\ ss["randomness"] = NULL
    /\ ss["ephemeral_private_key"] # NULL /\ ss["max_epoch"] # NULL /\ ss["nonce"] # NULL

\* C15: no request of completeZkLogin is in flight for a token that lacks a sub claim.
C15_NoRequestWithoutSub ==
    cz.pc # "idle" => Decode(cz.encodedJWT).sub # NULL

\* C16: a subject's salt is served for the first time only in answer to the salt
\* request of a completeZkLogin call for that subject, which passed the nonce checks.
C16_SaltOnlyForNonceBoundToken ==
    [][\A sub \in Subs :
          (served[sub] = NULL /\ served'[sub] # NULL)
              => (cz.pc = "salt" /\ Decode(cz.encodedJWT).sub = sub /\ cz'.pc # "salt")]_vars

\* One of the five inputs is not in the body, or is there and empty
Absent(req, f) == f \notin DOMAIN req \/ (f # "maxEpoch" /\ req[f] = NULL)

\* C17: POST /zkproof answers a body that lacks one of the five inputs with 400 and does
\* not call the prover; when it calls the prover all five are present and the payload
\* carries them.
C17_ProofInputsValidated ==
    Op(result) = "POST /zkproof" =>
        LET req == result[4][1]
            resp == result[4][2]
        IN  /\ (\E f \in ProofFields : Absent(req, f))
                   => (resp[2] = 400 /\ prover = NULL)
            /\ prover # NULL
                   => /\ \A f \in ProofFields : ~Absent(req, f)
                      /\ \A f \in ProofFields : prover[1][f] = req[f]

\* A body with everything but the salt was answered with 400
C17_Witness ==
    /\ Op(result) = "POST /zkproof"
    /\ DOMAIN result[4][1] = ProofFields \ {"salt"}
    /\ result[4][2][2] = 400
    /\ prover = NULL

\* A part of a text
Contains(text, part) == \E i \in 1..Len(text) : text[i] = part

\* C18: when the prover answers the proof request of completeZkLogin with a failure,
\* the call throws the proof-service error, whose message contains the prover's status
\* text and body, and the session is left as it was (no proof is persisted).
C18_ProverFailureSurfaced ==
    [][(/\ cz.pc = "proof" /\ prover' # NULL
        /\ prover'[2] # NetErr /\ ~ProverAccepted(prover'[2]))
          => /\ HasThrown(result') /\ Kind(result') = "ProofServiceError"
             /\ Contains(result'[4], prover'[2][3])
             /\ Contains(result'[4], prover'[2][4])
             /\ ss' = ss]_vars

\* A login failed on the prover's failure
C18_Witness ==
    /\ Op(result) = "completeZkLogin" /\ Kind(result) = "ProofServiceError"
    /\ prover # NULL /\ prover[2] \in ProverFailures

\* A complete session is persisted: executeZkLoginTransaction gets to its signing
SessionComplete ==
    /\ ~MissingZkLoginSessionData(ss["ephemeral_private_key"], ss["zk_proof"],
                                  ss["user_salt"], ss["decoded_jwt"], ss["max_epoch"])
    /\ ss["zklogin_address"] # NULL
\* The stored audience claim is absent or an empty list
StoredAudAbsent ==
    LET aud == ss["decoded_jwt"][2].aud
    IN  aud = NULL \/ (IsArray(aud) /\ Len(aud[2]) = 0)
\* The audience the claim asks for: the first entry of a list, a scalar itself
ExpectedAud ==
    LET aud == ss["decoded_jwt"][2].aud
    IN  IF IsArray(aud) THEN AudStr(aud[2][1]) ELSE aud
\* The address seed of what was submitted is that of the expected audience
SeedOfExpectedAud ==
    HasSubmitted(result) =>
        result[4][2].addressSeed =
            genAddressSeed(ss["user_salt"], ss["decoded_jwt"][2].sub, ExpectedAud)

\* C19 as stated: executeZkLoginTransaction on a complete session throws the
\* missing-audience error when the stored audience is absent or an empty list, and
\* otherwise computes the address seed from the first entry of a list or the scalar.
C19_Original ==
    (Op(result) = "executeZkLoginTransaction" /\ SessionComplete)
        => IF StoredAudAbsent THEN Kind(result) = "MissingAudience"
           ELSE SeedOfExpectedAud

\* C19 amended: with the audience absent or an empty list the call throws, the
\* missing-audience error unless building and signing the transaction has failed
\* before, and submits nothing; otherwise the seed is as stated.
C19_AudienceNormalized ==
    (Op(result) = "executeZkLoginTransaction" /\ SessionComplete)
        => IF StoredAudAbsent
           THEN /\ Kind(result) \in {"SignFailed", "MissingAudience"}
                /\ ~HasSubmitted(result)
           ELSE SeedOfExpectedAud

\* A call got past its signing and was refused for the missing audience
C19_Witness ==
    /\ Op(result) = "executeZkLoginTransaction" /\ Kind(result) = "MissingAudience"
    /\ SessionComplete /\ StoredAudAbsent

\* C20: the address seed submitted for a session whose audience is the list [c] is the
\* seed executeZkLoginTransaction computes for the same salt and subject with the
\* scalar audience c.
C20_ListScalarSameSeed ==
    (HasSubmitted(result) /\ SessionComplete)
        => LET aud == ss["decoded_jwt"][2].aud
           IN  (IsArray(aud) /\ Len(aud[2]) = 1)
                   => result[4][2].addressSeed =
                          genAddressSeed(ss["user_salt"], ss["decoded_jwt"][2].sub,
                                         FirstAud(AudStr(aud[2][1])))

\* A transaction was submitted for a session whose audience is a one-element list
C20_Witness ==
    /\ HasSubmitted(result) /\ SessionComplete
    /\ IsArray(ss["decoded_jwt"][2].aud)
    /\ Len(ss["decoded_jwt"][2].aud[2]) = 1

\* The four items of the binding
BindingKeys == { "ephemeral_private_key", "max_epoch", "randomness", "nonce" }

\* C21: when prepareLogin has returned, the persisted maxEpoch is the epoch its epoch
\* request was answered with plus 2, hence greater than that epoch.
C21_MaxEpochIsEpochPlusTwo ==
    (Op(result) = "prepareLogin" /\ HasReturned(result))
        => /\ ss["max_epoch"] = NumToString(epoch + 2)
           /\ Number(ss["max_epoch"]) > epoch

\* prepareLogin has returned in a later epoch than the initial one
C21_Witness ==
    /\ Op(result) = "prepareLogin" /\ HasReturned(result)
    /\ epoch > InitEpoch
    /\ ss["max_epoch"] # NULL

\* C22: whenever the four items of the binding are all present, the persisted nonce is
\* the nonce of the persisted key's public key, the persisted maxEpoch and the persisted
\* randomness; when prepareLogin has returned, the four items are those of the keypair
\* and randomness it generated, and the nonce it put in the redirect URL is the
\* persisted one.
C22_BindingConsistent ==
    /\ (\A k \in BindingKeys : ss[k] # NULL) => BindingIntact
    /\ (Op(result) = "prepareLogin" /\ HasReturned(result))
           => /\ ss["ephemeral_private_key"] = SecretKey(fresh)
              /\ ss["randomness"] = Randomness(fresh)
              /\ ss["max_epoch"] # NULL
              /\ result[4] = ss["nonce"]

\* A second prepareLogin has returned, over the binding of the first
C22_Witness ==
    /\ Op(result) = "prepareLogin" /\ HasReturned(result)
    /\ fresh = 2
    /\ result[4] = ss["nonce"]

\* C23: a prepareLogin call whose epoch request fails or is answered with a non-OK
\* status throws, and leaves session storage as it was.
C23_EpochUnavailableChangesNothing ==
    [][\A resp \in EpochResponses :
          (~RespOk(resp) /\ PrepareLoginOn(resp))
              => /\ Op(result') = "prepareLogin" /\ HasThrown(result')
                 /\ ss' = ss]_vars

\* prepareLogin has thrown with the binding of an earlier prepareLogin persisted
C23_Witness ==
    /\ Op(result) = "prepareLogin" /\ Kind(result) = "EpochUnavailable"
    /\ BindingIntact

\* C24: the four items of the binding are changed or removed only by a step that
\* removes the whole session (zkLoginLogout) or by a prepareLogin that returns: no step
\* of completeZkLogin, no executeZkLoginTransaction and no change of the ledger epoch
\* touches them.
C24_BindingStaysUntilClearedOrOverwritten ==
    [][(\E k \in BindingKeys : ss'[k] # ss[k])
          => \/ \A k \in SESSION_KEYS : ss'[k] = NULL
             \/ (Op(result') = "prepareLogin" /\ HasReturned(result'))]_vars

\* A completeZkLogin call has failed, nobody is logged in, the ledger is past the
\* binding's maxEpoch, and the binding is still there
C24_Witness ==
    /\ Op(result) = "completeZkLogin" /\ HasThrown(result)
    /\ ~Authenticated
    /\ BindingIntact
    /\ epoch > Number(ss["max_epoch"])

\* C25: a completeZkLogin call suspended while prepareLogin replaced the binding it
\* started from persists no proof bundle, claims or address when it resumes.
C25_OverwrittenAttemptPersistsNothing ==
    [][(/\ cz.pc # "idle"
        /\ ss["ephemeral_private_key"] # NULL
        /\ cz.ephemeralPrivateKeyStr # ss["ephemeral_private_key"])
          => /\ ss'["zk_proof"] = ss["zk_proof"]
             /\ ss'["decoded_jwt"] = ss["decoded_jwt"]
             /\ ss'["zklogin_address"] = ss["zklogin_address"]]_vars

\* The detail the error is to report for a response text: the nested error of the
\* details when the text and its details both parse, the top-level error when the text
\* parses and has no details, the text itself when parsing fails at either level
ReportedDetail(text) ==
    IF ~JsonParses(text) THEN text
    ELSE IF "details" \notin DOMAIN JsonParse(text) THEN Field(JsonParse(text), "error")
    ELSE IF JsonParses(JsonParse(text).details)
    THEN Field(JsonParse(JsonParse(text).details), "error")
    ELSE text

\* C30: when the salt request of completeZkLogin is answered with a status that is not
\* OK, the call throws the salt-service error, whose detail is the one described above,
\* dispatches no backup or proof request and writes nothing.
C30_SaltRejectionReported ==
    [][cz.pc = "salt" =>
          \A resp \in SaltAnswers :
              (resp # NetErr /\ ~RespOk(resp) /\ CompleteSaltResumeOn(resp))
                  => /\ Op(result') = "completeZkLogin"
                     /\ Kind(result') = "SaltServiceError"
                     /\ result'[4][2] = ReportedDetail(resp[3])
                     /\ cz' = NoFrame /\ prover' = NULL
                     /\ UNCHANGED <<ss, ls>>]_vars

\* The route's rejection of a token of another client was reported by its nested error
C30_Witness ==
    /\ Op(result) = "completeZkLogin" /\ Kind(result) = "SaltServiceError"
    /\ result[4][2] = <<"Invalid Client ID">>

\* C26: the salt a completeZkLogin call goes on with is the one its salt request was
\* answered with: it is the salt persisted in the session, the salt of the address
\* derivation and the salt of the proof request, and stays so up to the proof and the
\* session the call persists; the address seed of a submitted transaction is that of
\* the session's salt.  The device's copy is not looked at.
C26_SaltIsTheServersAnswer ==
    [][/\ cz.pc = "salt" =>
            \A resp \in SaltAnswers :
                (RespOk(resp) /\ CompleteSaltResumeOn(resp))
                    => /\ cz'.userSalt = resp[3]
                       /\ ss'["user_salt"] = resp[3]
       /\ (cz.pc # "proof" /\ cz'.pc = "proof") =>
            /\ cz.pc \in {"salt", "backup"}
            /\ cz.pc = "backup" => cz'.userSalt = cz.userSalt
            /\ ProofRequest(cz').salt = cz'.userSalt
            /\ cz'.zkLoginUserAddress = jwtToAddress(Decode(cz'.encodedJWT), cz'.userSalt)
       /\ (cz.pc = "proof" /\ Op(result') = "completeZkLogin" /\ HasReturned(result'))
            => /\ ss'["user_salt"] = cz.userSalt
               /\ ss'["zk_proof"][2][6] = cz.userSalt
               /\ ss'["zklogin_address"] = cz.zkLoginUserAddress
       /\ HasSubmitted(result') => result'[4][2].addressSeed[2] = ss["user_salt"]]_vars

\* A login has completed on the server's salt while the device's copy is another one
C26_Witness ==
    /\ Op(result) = "completeZkLogin" /\ HasReturned(result)
    /\ ss["user_salt"] = DeriveSalt(masterSecret, ss["decoded_jwt"][2].sub)
    /\ LsGetItem(ls, SaltKey(ss["decoded_jwt"][2].sub)) = ForeignSalt(ss["decoded_jwt"][2].sub)

\* The requests the client and the proof route dispatch
RequestNames ==
    { "GET /epoch", "POST /salt", "POST /email-salt-backup", "POST /zkproof", "POST prover",
      "executeTransactionBlock" }

\* How often a request is among those of a step
Dispatched(requests, name) == Cardinality({ i \in 1..Len(requests) : requests[i] = name })

\* The order in which one completeZkLogin passes its awaits
ForwardMoves ==
    { <<"idle", "salt">>, <<"salt", "backup">>, <<"salt", "proof">>, <<"backup", "proof">>,
      <<"salt", "idle">>, <<"proof", "idle">> }

\* C27: no step dispatches a request twice, whatever the responses are. The epoch request
\* belongs to the one step of prepareLogin and the transaction to the one step of
\* executeZkLoginTransaction; within completeZkLogin the salt request is dispatched only
\* when the call starts, the backup request only when the salt has arrived, the proof
\* request only when the salt or the backup has been answered, the prover is asked only
\* while the proof request is served, and the call never goes back to an earlier await.
C27_NoAutomaticRetry ==
    [][/\ \A name \in RequestNames : Dispatched(sent', name) <= 1
       /\ \A i \in 1..Len(sent') : sent'[i] \in RequestNames
       /\ Dispatched(sent', "GET /epoch") > 0 => Op(result') = "prepareLogin"
       /\ Dispatched(sent', "executeTransactionBlock") > 0
              => Op(result') = "executeZkLoginTransaction"
       /\ Dispatched(sent', "POST /salt") > 0 => (cz.pc = "idle" /\ cz'.pc = "salt")
       /\ Dispatched(sent', "POST /email-salt-backup") > 0
              => (cz.pc = "salt" /\ cz'.pc = "backup")
       /\ Dispatched(sent', "POST /zkproof") > 0
              => (cz.pc \in {"salt", "backup"} /\ cz'.pc = "proof")
       /\ Dispatched(sent', "POST prover") > 0 => (cz.pc = "proof" /\ cz'.pc = "idle")
       /\ cz' # cz => <<cz.pc, cz'.pc>> \in ForwardMoves]_vars

\* The prover has refused the one request made of it and the login has failed on that
C27_Witness ==
    /\ Op(result) = "completeZkLogin" /\ HasThrown(result)
    /\ Kind(result) = "ProofServiceError"
    /\ prover # NULL /\ prover[2] # NetErr /\ ~ProverAccepted(prover[2])
    /\ sent = <<"POST prover">>

\* The operations that only read
ReadOnlyOps ==
    { "executeZkLoginTransaction", "isZkLoginSessionActive", "getZkLoginAddress",
      "getDecodedJwt", "recoverSaltFromStorage" }

\* C28: a step of executeZkLoginTransaction, isZkLoginSessionActive, getZkLoginAddress,
\* getDecodedJwt or recoverSaltFromStorage, whether it returns or throws, leaves every
\* session item and every entry of the device's storage as it was.
C28_ReadsWriteNothing ==
    [][Op(result') \in ReadOnlyOps => UNCHANGED <<ss, ls>>]_vars

\* executeZkLoginTransaction has thrown on a complete session with a device copy
C28_Witness ==
    /\ Op(result) = "executeZkLoginTransaction" /\ HasThrown(result)
    /\ Authenticated /\ ss["zk_proof"] # NULL
    /\ ls # <<>>

\* C29: clearSaltBackups leaves of the device's storage exactly the entries whose key
\* does not start with 'zklogin_salt_', unchanged and in their order.
C29_ClearRemovesEverySaltEntry ==
    [][Op(result') = "clearSaltBackups"
          => ls' = SelectSeq(ls, LAMBDA e : ~HasSaltPrefix(e[1]))]_vars

\* C31: with the calls one after the other, whenever the address is persisted the
\* ephemeral key, maxEpoch, the proof bundle, the salt and the claims are persisted as
\* well, and no executeZkLoginTransaction has failed for missing session data while the
\* session is active.
C31_ActiveSessionIsComplete ==
    /\ isZkLoginSessionActive
           => ~MissingZkLoginSessionData(ss["ephemeral_private_key"], ss["zk_proof"],
                                         ss["user_salt"], ss["decoded_jwt"], ss["max_epoch"])
    /\ (Op(result) = "executeZkLoginTransaction" /\ Kind(result) = "MissingSessionData")
           => ~isZkLoginSessionActive

\* executeZkLoginTransaction has submitted on an active session
C31_Witness ==
    /\ isZkLoginSessionActive
    /\ Op(result) = "executeZkLoginTransaction" /\ HasReturned(result)

\* C32: whenever an address is persisted, it is the address of the persisted claims and
\* the persisted salt, so the persisted salt, claims and address are those of one login.
C32_SessionOfOneLogin ==
    isZkLoginSessionActive
        => /\ ss["decoded_jwt"] # NULL
           /\ ss["zklogin_address"] = jwtToAddress(ss["decoded_jwt"][2], ss["user_salt"])

\* The items a login adds to the binding
LoginItems == { "user_salt", "salt_backup_sent", "zk_proof", "decoded_jwt", "zklogin_address" }

\* C33: a completeZkLogin that is suspended while the session has no ephemeral key has
\* been overtaken by zkLoginLogout (it began with the key persisted, and nothing else
\* removes it); when it resumes in that state, on its salt, backup or proof response, it
\* leaves the session without salt, backup-sent flag, proof, claims and address.
C33_LogoutSurvivesResumedCall ==
    [][(/\ cz.pc # "idle"
        /\ cz' # cz
        /\ ss["ephemeral_private_key"] = NULL)
           => \A k \in LoginItems : ss'[k] = NULL]_vars

\* A proof request whose parts belong together: its key, maxEpoch and randomness give
\* the nonce of its token, and its salt is what POST /salt answers for that token
ProofRequestBound(req) ==
    /\ Decodes(req.jwt)
    /\ \E n \in 1..fresh :
           /\ req.extendedEphemeralPublicKey =
                  getExtendedEphemeralPublicKey(PublicKey(SecretKey(n)))
           /\ generateNonce(PublicKey(SecretKey(n)), req.maxEpoch, req.jwtRandomness)
                  = Decode(req.jwt).nonce
    /\ SaltEndpoint(req.jwt, userSalts)[1] = Http(200, req.salt)

\* C34: the proof request of a completeZkLogin in flight carries the call's token with
\* the extended public key, maxEpoch and randomness whose nonce is the token's and the
\* salt the server returns for that token, whatever the session holds by then; and so
\* does the payload the server hands to the prover for it.
C34_ProofRequestOfOneCall ==
    /\ cz.pc = "proof"
           => (ProofRequest(cz).jwt = cz.encodedJWT /\ ProofRequestBound(ProofRequest(cz)))
    /\ (Op(result) = "completeZkLogin" /\ prover # NULL)
           => ProofRequestBound([f \in ProofFields |-> prover[1][f]])

\* A proof request is in flight while prepareLogin has replaced the binding
C34_Witness ==
    /\ cz.pc = "proof"
    /\ ss["nonce"] # NULL
    /\ ss["nonce"] # Decode(cz.encodedJWT).nonce

\* A token with three parts whose payload has a subject and whose audience, the first
\* entry of a list, is a whitelisted client id
Acceptable(token) ==
    /\ token # NULL /\ token[1] = "jwt"
    /\ token[2].sub # NULL
    /\ LET aud == token[2].aud
       IN  /\ aud # NULL
           /\ \/ aud[1] = "str" /\ aud[2] \in WHITELISTED_CLIENT_IDS
              \/ aud[1] = "list" /\ Len(aud[2]) > 0 /\ aud[2][1] \in WHITELISTED_CLIENT_IDS

EmptyCache == [s \in Subs |-> NULL]

\* C36: every entry of the salt cache is the derivation of its subject from the master
\* secret; a salt request removes no entry and changes none, and its answer is the one
\* an empty cache would have given (a hit returns what a miss derives).
C36_CacheHoldsTheDerivation ==
    [][/\ \A sub \in Subs :
              userSalts'[sub] # NULL => userSalts'[sub] = DeriveSalt(masterSecret, sub)
       /\ Op(result') = "POST /salt"
              => /\ \A sub \in Subs :
                        userSalts[sub] # NULL => userSalts'[sub] = userSalts[sub]
                 /\ result'[4][2] = SaltEndpoint(result'[4][1], EmptyCache)[1]]_vars

\* A salt request was answered with a salt while every subject had its cache entry
C36_Witness ==
    /\ Op(result) = "POST /salt"
    /\ RespOk(result[4][2])
    /\ \A sub \in Subs : userSalts[sub] # NULL

\* The items executeZkLoginTransaction checks at line 262, and with the address all it loads
CheckedItems == { "ephemeral_private_key", "zk_proof", "user_salt", "decoded_jwt", "max_epoch" }

\* C37: an executeZkLoginTransaction that got as far as signing (it failed there or
\* later, or it submitted) found the ephemeral key, the proof bundle, the salt, the
\* claims, maxEpoch and the address persisted; with one of the first five absent the
\* call throws the missing-session error and nothing is signed or submitted.
C37_NothingSignedWithoutSession ==
    Op(result) = "executeZkLoginTransaction" =>
        /\ Kind(result) \notin {"MissingSessionData", "AddressNotFound"}
               => \A k \in CheckedItems \cup {"zklogin_address"} : ss[k] # NULL
        /\ (\E k \in CheckedItems : ss[k] = NULL)
               => /\ result = Threw("executeZkLoginTransaction", "MissingSessionData", NULL)
                  /\ sent = <<>>

\* After a login and a logout a new prepareLogin has stored its binding, and
\* executeZkLoginTransaction has thrown the missing-session error
C37_Witness ==
    /\ result = Threw("executeZkLoginTransaction", "MissingSessionData", NULL)
    /\ firstLogin # NULL /\ firstLogin[3]
    /\ ss["ephemeral_private_key"] # NULL
    /\ \A k \in LoginItems : ss[k] = NULL

-----------------------------------------------------------------------------
(* kyc_auth: the registry's counters and the sessions of zk_login *)

\* The registered users whose KYC is verified
VerifiedUsers == { a \in DOMAIN registry.users : registry.users[a].kyc_status = 2 }

\* C38: the counter verified_users is the number of registered users with kyc_status 2,
\* it is at most total_users, and total_users is the number of entries of users.
C38_CountersMatchTheUsers ==
    /\ registry.verified_users = Cardinality(VerifiedUsers)
    /\ registry.verified_users <= registry.total_users
    /\ registry.total_users = Cardinality(DOMAIN registry.users)

\* The last transaction was a zk_login, and the step is that transaction
LoginStep == tx' # NULL /\ tx'[1] = "zk_login" /\ <<registry, sessions, tx>>' # <<registry, sessions, tx>>

\* What zk_login asks of the credential presented and of its sender, in the state before
LoginConditions(sender, c) ==
    /\ credentials[c].user_address = sender
    /\ credentials[c].is_active
    /\ credentials[c].expires_at > clock
    /\ contains(registry.users, sender)
    /\ registry.users[sender].kyc_status = 2
    /\ registry.users[sender].kyc_expiry > clock
    /\ registry.users[sender].verification_level >= min_verification_level

\* C39: zk_login creates a session for its sender only if the credential presented is
\* the sender's, active and unexpired and the sender is registered with kyc_status 2, an
\* unexpired KYC and a sufficient verification level; no session is created for a user
\* whose KYC was revoked or whose credential was deactivated since the last
\* complete_kyc_verification for that user; a zk_login that fails leaves the registry
\* as it was.
C39_SessionOnlyForVerifiedUser ==
    [][LoginStep =>
        IF sessions' # sessions
        THEN /\ LoginConditions(tx'[2], tx'[4])
             /\ ~barred[tx'[2]]
             /\ sessions' = Append(sessions, sessions'[Len(sessions')])
             /\ sessions'[Len(sessions')].user_address = tx'[2]
        ELSE registry' = registry]_vars

====
